---- MODULE Spec2Model ----
(***************************************************************************)
(* Mass face-recognition attendance workflow of CampusEase.                *)
(*                                                                         *)
(*   - MassFaceRecognitionComponent (upload / processing / review /        *)
(*     saving), its two asynchronous calls and the modal of the            *)
(*     Attendance page that mounts it;                                     *)
(*   - the recognition service behind /mass-recognition and               *)
(*     /save-attendance, whose code is not part of the sources: it is      *)
(*     modelled from the specification (reconcile, commit);                *)
(*   - manual marking on the Attendance page (markAttendance,              *)
(*     markAllPresent) against the attendance table.                       *)
(***************************************************************************)
EXTENDS Integers, Sequences, FiniteSets, TLC

VARIABLES
    \* ---- Attendance page (parent) ----
    students,            \* roster of the selected class, in roster order
    attendance,          \* in-memory attendance list
    selectedDate,        \* selected date
    showFaceRecognition, \* modal open (component mounted)
    \* ---- MassFaceRecognitionComponent state ----
    currentStep,         \* 'upload' | 'processing' | 'review' | 'saving'
    classPhoto,          \* selected file or NoFile
    error,               \* error text or NoError
    attendanceResults,   \* result list as returned by the recognizer
    editedResults,       \* editable decision list
    processing,          \* recognizer call running
    saving,              \* save call running
    \* ---- calls in flight ----
    recCall,             \* /mass-recognition call of the mounted component
    saveCall,            \* /save-attendance call of the mounted component
    recOrphan,           \* /mass-recognition call whose component was unmounted
    saveOrphan,          \* /save-attendance call whose component was unmounted
    \* ---- manual marking ----
    store,               \* rows of the attendance table
    markPc,              \* position of the running markAttendance call
    markCall,            \* the running markAttendance call (its closure)
    batch,               \* the running markAllPresent loop (its closure)
    report,              \* outcome reported per student ("none": not yet)
    rejected,            \* students whose write the store refused
    \* ---- class selection on the Attendance page ----
    selectedClass,       \* class_id of the selected class or NoClass
    fetchingStudents,    \* class_id whose roster is being fetched or NoClass
    rosterCalls,         \* class_ids of the fetchStudents calls in flight
    \* ---- FaceUploadComponent ----
    images,              \* added images: file and status
    uploadError,         \* its error text or NoError
    uploading,           \* training request running
    success,             \* training completed
    trainCall,           \* /train-student call in flight
    \* ---- observation ----
    toasts,              \* toasts emitted by the last handler
    lastOp               \* the last handler that ran, with its input

pageVars  == <<students, attendance, selectedDate, showFaceRecognition>>
compVars  == <<currentStep, classPhoto, error, attendanceResults, editedResults,
               processing, saving>>
callVars  == <<recCall, saveCall, recOrphan, saveOrphan>>
markVars  == <<store, markPc, markCall, batch, report, rejected>>
classVars == <<selectedClass, fetchingStudents, rosterCalls>>
trainVars == <<images, uploadError, uploading, success, trainCall>>
vars == <<pageVars, compVars, callVars, markVars, classVars, trainVars, toasts, lastOp>>

----------------------------------------------------------------------------
(* Bounds *)

MaxDet == 2        \* most detections in one recognizer output
MaxFiles == 2      \* most files in one selection or drop
MaxCalls == 2      \* most fetchStudents calls in flight

----------------------------------------------------------------------------
(* Values *)

Students == {"s1", "s2"}       \* students that may be enrolled in the class
Outsider == "x9"               \* a trained identity enrolled in no roster
Unmatched == "unmatched"       \* a face matched to no identity
Identities == Students \cup {Outsider, Unmatched}
Statuses == {"present", "absent", "late"}
Dates == {"d1", "d2"}

similarity_threshold == 4
ConfLevels == {3, 4}
NullConfidence == -1

MAX_FILE_SIZE == 20 * 1024 * 1024
ACCEPTED_TYPES == {"image/jpeg", "image/jpg", "image/png"}

NoFile == [type |-> "none", size |-> 0]
Files == {[type |-> "image/png", size |-> MAX_FILE_SIZE],
          [type |-> "image/gif", size |-> 1],
          [type |-> "image/jpeg", size |-> MAX_FILE_SIZE + 1]}

NoError == "null"
NoCall == [st |-> "none"]

\* a || b on strings
OrElse(a, b) == IF a = "" THEN b ELSE a

\* message texts a failing service may send (possibly empty)
Messages == {"", "service message"}

RECURSIVE SeqsUpTo(_, _)
SeqsUpTo(S, n) ==
    IF n = 0 THEN {<<>>}
    ELSE LET shorter == SeqsUpTo(S, n - 1)
         IN shorter \cup {Append(q, x) : q \in {r \in shorter : Len(r) = n - 1}, x \in S}

Range(q) == {q[i] : i \in 1..Len(q)}
Injective(q) == \A i, j \in 1..Len(q) : q[i] = q[j] => i = j

\* class_details and student_records: the classes and the students of each,
\* .order('user_id')
NoClass == "null"
ClassIds == {"c1", "c2", "c3", "c4"}
student_records ==
    [c1 |-> <<>>, c2 |-> <<"s1">>, c3 |-> <<"s2">>, c4 |-> <<"s1", "s2">>]

Rosters == {student_records[c] : c \in ClassIds}
Detections == [student : Identities, confidence : ConfLevels]
DetectionLists == SeqsUpTo(Detections, MaxDet)

\* detections with two confidence levels that clear the threshold
WideConfLevels == ConfLevels \cup {5}
WideDetectionLists ==
    SeqsUpTo([student : Identities, confidence : WideConfLevels], MaxDet)

\* detections that all clear the threshold, of students and of others
SureDetectionLists ==
    SeqsUpTo([student : Identities, confidence : {similarity_threshold}], MaxDet)

Ids(list) == [i \in 1..Len(list) |-> list[i].student_id]

----------------------------------------------------------------------------
(* Recognition service: reconciliation *)

\* Qualifying with > in place of >=
Qualifying_Strict(D, s, t) ==
    {i \in 1..Len(D) : D[i].student = s /\ D[i].confidence > t}

Qualifying(D, s, t) ==
    {i \in 1..Len(D) : D[i].student = s /\ D[i].confidence >= t}

\* BestConfidence that takes the first qualifying detection
BestConfidence_First(D, s, t) ==
    D[CHOOSE i \in Qualifying(D, s, t) : \A j \in Qualifying(D, s, t) : i <= j].confidence

BestConfidence(D, s, t) ==
    CHOOSE c \in {D[i].confidence : i \in Qualifying(D, s, t)} :
        \A i \in Qualifying(D, s, t) : D[i].confidence <= c

\* reconcile that also emits a decision per detection of an identity
\* outside the roster
reconcile_WithStrangers(R, D, t) ==
    [i \in 1..Len(R) |->
        IF Qualifying(D, R[i], t) # {}
        THEN [student_id |-> R[i], status |-> "present",
              confidence |-> BestConfidence(D, R[i], t), detected |-> TRUE]
        ELSE [student_id |-> R[i], status |-> "absent",
              confidence |-> NullConfidence, detected |-> FALSE]]
    \o
    LET strangers == SelectSeq(D, LAMBDA d : /\ d.student \notin Range(R)
                                            /\ d.student # Unmatched
                                            /\ d.confidence >= t)
    IN [i \in 1..Len(strangers) |->
          [student_id |-> strangers[i].student, status |-> "present",
           confidence |-> strangers[i].confidence, detected |-> TRUE]]

reconcile(R, D, t) ==
    [i \in 1..Len(R) |->
        IF Qualifying(D, R[i], t) # {}
        THEN [student_id |-> R[i], status |-> "present",
              confidence |-> BestConfidence(D, R[i], t), detected |-> TRUE]
        ELSE [student_id |-> R[i], status |-> "absent",
              confidence |-> NullConfidence, detected |-> FALSE]]

----------------------------------------------------------------------------
(* MassFaceRecognitionComponent *)

\* validateFile without the size limit
validateFile_NoSizeLimit(file) ==
    IF file.type \notin ACCEPTED_TYPES
    THEN [valid |-> FALSE, error |-> "Only JPEG and PNG images are allowed"]
    ELSE [valid |-> TRUE, error |-> ""]

validateFile(file) ==
    IF file.type \notin ACCEPTED_TYPES
    THEN [valid |-> FALSE, error |-> "Only JPEG and PNG images are allowed"]
    ELSE IF file.size > MAX_FILE_SIZE
    THEN [valid |-> FALSE, error |-> "File size must be less than 20MB"]
    ELSE [valid |-> TRUE, error |-> ""]

\* state of a freshly mounted component
Mounted ==
    /\ currentStep' = "upload"
    /\ classPhoto' = NoFile
    /\ error' = NoError
    /\ attendanceResults' = <<>>
    /\ editedResults' = <<>>
    /\ processing' = FALSE
    /\ saving' = FALSE

\* the component is unmounted: its state is gone, its calls stay in flight
\* (one such call is tracked per endpoint; recLeft, saveLeft: the calls of
\* earlier components still in flight)
Unmount(recLeft, saveLeft) ==
    /\ Mounted
    /\ recCall' = NoCall
    /\ saveCall' = NoCall
    /\ IF recCall = NoCall THEN recOrphan' = recLeft
       ELSE recLeft = NoCall /\ recOrphan' = [st |-> "sent"]
    /\ IF saveCall = NoCall THEN saveOrphan' = saveLeft
       ELSE /\ saveLeft = NoCall
            /\ saveOrphan' = [st |-> "sent", date |-> saveCall.date,
                    attendance_results |-> saveCall.attendance_results]

\* the Smart Face Recognition button: setShowFaceRecognition(true)
showPanel ==
    /\ ~showFaceRecognition
    /\ markPc = "idle"
    /\ showFaceRecognition' = TRUE
    /\ toasts' = <<>>
    /\ lastOp' = [op |-> "open"]
    /\ UNCHANGED <<classVars, trainVars, students, attendance, selectedDate, compVars, callVars, markVars>>

\* the panel opened after the save call of the previous panel has completed
OpenFaceRecognition ==
    /\ saveOrphan = NoCall
    /\ showPanel

handleFileSelect(file) ==
    /\ showFaceRecognition
    /\ currentStep = "upload"
    /\ LET validation == validateFile(file) IN
       IF ~validation.valid
       THEN /\ error' = OrElse(validation.error, "Invalid file")
            /\ UNCHANGED classPhoto
       ELSE /\ classPhoto' = file
            /\ error' = NoError
    /\ toasts' = <<>>
    /\ lastOp' = [op |-> "handleFileSelect", file |-> file]
    /\ UNCHANGED <<classVars, trainVars, pageVars, currentStep, attendanceResults, editedResults,
                   processing, saving, callVars, markVars>>

chooseDifferentPhoto ==
    /\ showFaceRecognition
    /\ currentStep = "upload"
    /\ classPhoto # NoFile
    /\ classPhoto' = NoFile
    /\ toasts' = <<>>
    /\ lastOp' = [op |-> "chooseDifferentPhoto"]
    /\ UNCHANGED <<classVars, trainVars, pageVars, currentStep, error, attendanceResults, editedResults,
                   processing, saving, callVars, markVars>>

processClassPhoto ==
    /\ showFaceRecognition
    /\ currentStep = "upload"
    /\ classPhoto # NoFile
    /\ processing' = TRUE
    /\ currentStep' = "processing"
    /\ error' = NoError
    /\ recCall' = [st |-> "sent", photo |-> classPhoto]
    /\ toasts' = <<>>
    /\ lastOp' = [op |-> "processClassPhoto"]
    /\ UNCHANGED <<classVars, trainVars, pageVars, classPhoto, attendanceResults, editedResults, saving,
                   saveCall, recOrphan, saveOrphan, markVars>>

\* the continuation of processClassPhoto throws or catches on response r
recFailed(r) == r.kind = "threw" \/ r.kind = "not_ok" \/ ~r.success

\* recError without the fallback texts
recError_NoFallback(r) == r.message

\* the message of the error it catches, as shown:
\* new Error(detail || 'Face recognition failed'), then
\* error.message || 'Failed to process class photo'
recError(r) ==
    IF r.kind = "threw" THEN OrElse(r.message, "Failed to process class photo")
    ELSE OrElse(OrElse(r.message, "Face recognition failed"),
                "Failed to process class photo")

\* processClassPhotoDone that forgets setEditedResults
processClassPhotoDone_KeepsList ==
    /\ showFaceRecognition
    /\ recCall # NoCall
    /\ recCall.st = "resp"
    /\ LET r == recCall.resp IN
       IF ~recFailed(r)
       THEN /\ attendanceResults' = r.attendance_results
            /\ currentStep' = "review"
            /\ toasts' = <<"Face Recognition Complete">>
            /\ UNCHANGED <<error, editedResults>>
       ELSE /\ error' = recError(r)
            /\ currentStep' = "upload"
            /\ toasts' = <<"Recognition Failed">>
            /\ UNCHANGED <<attendanceResults, editedResults>>
    /\ processing' = FALSE
    /\ recCall' = NoCall
    /\ lastOp' = [op |-> "processClassPhotoDone"]
    /\ UNCHANGED <<classVars, trainVars, pageVars, classPhoto, saving, saveCall, recOrphan, saveOrphan,
                   markVars>>

\* the continuation with a catch block that leaves the step alone
processClassPhotoDone_StaysProcessing ==
    /\ showFaceRecognition
    /\ recCall # NoCall
    /\ recCall.st = "resp"
    /\ LET r == recCall.resp IN
       IF ~recFailed(r)
       THEN /\ attendanceResults' = r.attendance_results
            /\ editedResults' = r.attendance_results
            /\ currentStep' = "review"
            /\ toasts' = <<"Face Recognition Complete">>
            /\ UNCHANGED error
       ELSE /\ error' = recError(r)
            /\ UNCHANGED currentStep
            /\ toasts' = <<"Recognition Failed">>
            /\ UNCHANGED <<attendanceResults, editedResults>>
    /\ processing' = FALSE
    /\ recCall' = NoCall
    /\ lastOp' = [op |-> "processClassPhotoDone"]
    /\ UNCHANGED <<classVars, trainVars, pageVars, classPhoto, saving, saveCall, recOrphan, saveOrphan, markVars>>

processClassPhotoDone ==
    /\ showFaceRecognition
    /\ recCall # NoCall
    /\ recCall.st = "resp"
    /\ LET r == recCall.resp IN
       IF ~recFailed(r)
       THEN /\ attendanceResults' = r.attendance_results
            /\ editedResults' = r.attendance_results
            /\ currentStep' = "review"
            /\ toasts' = <<"Face Recognition Complete">>
            /\ UNCHANGED error
       ELSE /\ error' = recError(r)
            /\ currentStep' = "upload"
            /\ toasts' = <<"Recognition Failed">>
            /\ UNCHANGED <<attendanceResults, editedResults>>
    /\ processing' = FALSE
    /\ recCall' = NoCall
    /\ lastOp' = [op |-> "processClassPhotoDone"]
    /\ UNCHANGED <<classVars, trainVars, pageVars, classPhoto, saving, saveCall, recOrphan, saveOrphan, markVars>>

\* the call of an unmounted component completes with response r: the state
\* updates of the continuation are dropped, its toast is not
processClassPhotoDoneUnmounted(r) ==
    /\ recOrphan # NoCall
    /\ recOrphan' = NoCall
    /\ toasts' = IF ~recFailed(r)
                 THEN <<"Face Recognition Complete">>
                 ELSE <<"Recognition Failed">>
    /\ lastOp' = [op |-> "processClassPhotoDoneUnmounted"]
    /\ UNCHANGED <<classVars, trainVars, pageVars, compVars, recCall, saveCall, saveOrphan, markVars>>

\* updateStudentStatus with filter in place of map
updateStudentStatus_Filter(studentId, newStatus) ==
    /\ showFaceRecognition
    /\ currentStep = "review"
    /\ editedResults' =
         LET kept == SelectSeq(editedResults, LAMBDA d : d.student_id = studentId)
         IN [i \in 1..Len(kept) |-> [kept[i] EXCEPT !.status = newStatus]]
    /\ toasts' = <<>>
    /\ lastOp' = [op |-> "updateStudentStatus", student |-> studentId,
                  status |-> newStatus]
    /\ UNCHANGED <<classVars, trainVars, pageVars, currentStep, classPhoto, error, attendanceResults,
                   processing, saving, callVars, markVars>>

\* updateStudentStatus that adds a decision for a student the list lacks
updateStudentStatus_Upsert(studentId, newStatus) ==
    /\ showFaceRecognition
    /\ currentStep = "review"
    /\ editedResults' =
         IF \E i \in 1..Len(editedResults) : editedResults[i].student_id = studentId
         THEN [i \in 1..Len(editedResults) |->
                IF editedResults[i].student_id = studentId
                THEN [editedResults[i] EXCEPT !.status = newStatus]
                ELSE editedResults[i]]
         ELSE Append(editedResults,
                     [student_id |-> studentId, status |-> newStatus,
                      confidence |-> NullConfidence, detected |-> FALSE])
    /\ toasts' = <<>>
    /\ lastOp' = [op |-> "updateStudentStatus", student |-> studentId,
                  status |-> newStatus]
    /\ UNCHANGED <<classVars, trainVars, pageVars, currentStep, classPhoto, error, attendanceResults,
                   processing, saving, callVars, markVars>>

\* updateStudentStatus that turns the edited decision into an undetected one
updateStudentStatus_ResetsConfidence(studentId, newStatus) ==
    /\ showFaceRecognition
    /\ currentStep = "review"
    /\ editedResults' = [i \in 1..Len(editedResults) |->
            IF editedResults[i].student_id = studentId
            THEN [student_id |-> studentId, status |-> newStatus,
                  confidence |-> NullConfidence, detected |-> FALSE]
            ELSE editedResults[i]]
    /\ toasts' = <<>>
    /\ lastOp' = [op |-> "updateStudentStatus", student |-> studentId,
                  status |-> newStatus]
    /\ UNCHANGED <<classVars, trainVars, pageVars, currentStep, classPhoto, error, attendanceResults,
                   processing, saving, callVars, markVars>>

\* updateStudentStatus that moves the edited decision to the head of the list
updateStudentStatus_MoveToFront(studentId, newStatus) ==
    /\ showFaceRecognition
    /\ currentStep = "review"
    /\ editedResults' =
         LET hit == SelectSeq(editedResults, LAMBDA d : d.student_id = studentId)
             rest == SelectSeq(editedResults, LAMBDA d : d.student_id # studentId)
         IN [i \in 1..Len(hit) |-> [hit[i] EXCEPT !.status = newStatus]] \o rest
    /\ toasts' = <<>>
    /\ lastOp' = [op |-> "updateStudentStatus", student |-> studentId,
                  status |-> newStatus]
    /\ UNCHANGED <<classVars, trainVars, pageVars, currentStep, classPhoto, error, attendanceResults,
                   processing, saving, callVars, markVars>>

updateStudentStatus(studentId, newStatus) ==
    /\ showFaceRecognition
    /\ currentStep = "review"
    /\ editedResults' = [i \in 1..Len(editedResults) |->
            IF editedResults[i].student_id = studentId
            THEN [editedResults[i] EXCEPT !.status = newStatus]
            ELSE editedResults[i]]
    /\ toasts' = <<>>
    /\ lastOp' = [op |-> "updateStudentStatus", student |-> studentId,
                  status |-> newStatus]
    /\ UNCHANGED <<classVars, trainVars, pageVars, currentStep, classPhoto, error, attendanceResults,
                   processing, saving, callVars, markVars>>

uploadDifferentPhoto ==
    /\ showFaceRecognition
    /\ currentStep = "review"
    /\ currentStep' = "upload"
    /\ toasts' = <<>>
    /\ lastOp' = [op |-> "uploadDifferentPhoto"]
    /\ UNCHANGED <<classVars, trainVars, pageVars, classPhoto, error, attendanceResults, editedResults,
                   processing, saving, callVars, markVars>>

\* saveAttendance offered in the upload step as well
saveAttendance_AnyStep ==
    /\ showFaceRecognition
    /\ currentStep \in {"upload", "review"}
    /\ saving' = TRUE
    /\ currentStep' = "saving"
    /\ error' = NoError
    /\ saveCall' = [st |-> "sent", date |-> selectedDate,
                    attendance_results |-> editedResults]
    /\ toasts' = <<>>
    /\ lastOp' = [op |-> "saveAttendance"]
    /\ UNCHANGED <<classVars, trainVars, pageVars, classPhoto, attendanceResults, editedResults,
                   processing, recCall, recOrphan, saveOrphan, markVars>>

\* saveAttendance that sends the list as the recognizer produced it
saveAttendance_StaleList ==
    /\ showFaceRecognition
    /\ currentStep = "review"
    /\ saving' = TRUE
    /\ currentStep' = "saving"
    /\ error' = NoError
    /\ saveCall' = [st |-> "sent", date |-> selectedDate,
                    attendance_results |-> attendanceResults]
    /\ toasts' = <<>>
    /\ lastOp' = [op |-> "saveAttendance"]
    /\ UNCHANGED <<classVars, trainVars, pageVars, classPhoto, attendanceResults, editedResults,
                   processing, recCall, recOrphan, saveOrphan, markVars>>

saveAttendance ==
    /\ showFaceRecognition
    /\ currentStep = "review"
    /\ saving' = TRUE
    /\ currentStep' = "saving"
    /\ error' = NoError
    /\ saveCall' = [st |-> "sent", date |-> selectedDate,
                    attendance_results |-> editedResults]
    /\ toasts' = <<>>
    /\ lastOp' = [op |-> "saveAttendance"]
    /\ UNCHANGED <<classVars, trainVars, pageVars, classPhoto, attendanceResults, editedResults,
                   processing, recCall, recOrphan, saveOrphan, markVars>>

\* onClose that sends the reviewed list when the panel is closed in review
onClose_Saves ==
    /\ showFaceRecognition
    /\ showFaceRecognition' = FALSE
    /\ Mounted
    /\ recCall' = NoCall
    /\ saveCall' = NoCall
    /\ recOrphan' = IF recCall = NoCall THEN recOrphan ELSE [st |-> "sent"]
    /\ saveOrphan' = IF currentStep = "review" \/ saveCall # NoCall
                     THEN [st |-> "sent", date |-> selectedDate,
                           attendance_results |-> editedResults]
                     ELSE saveOrphan
    /\ toasts' = <<>>
    /\ lastOp' = [op |-> "onClose", step |-> currentStep,
                  edited |-> editedResults # attendanceResults]
    /\ UNCHANGED <<classVars, trainVars, students, attendance, selectedDate, markVars>>

onClose ==
    /\ showFaceRecognition
    /\ showFaceRecognition' = FALSE
    /\ Unmount(recOrphan, saveOrphan)
    /\ toasts' = <<>>
    /\ lastOp' = [op |-> "onClose", step |-> currentStep,
                  edited |-> editedResults # attendanceResults]
    /\ UNCHANGED <<classVars, trainVars, students, attendance, selectedDate, markVars>>

\* handleFaceRecognitionResults: the records built from the reviewed list
attendanceRecords(results, date) ==
    [i \in 1..Len(results) |->
        [user_id |-> results[i].student_id,
         date |-> date,
         status |-> results[i].status,
         face_recognition_confidence |-> results[i].confidence,
         marked_via |-> IF results[i].confidence > 0
                        THEN "face_recognition" ELSE "manual"]]

\* the continuation of saveAttendance throws or catches on response r
saveFailed(r) == r.kind = "threw" \/ r.kind = "not_ok" \/ ~r.success

\* the message of the error it catches, as shown
saveError(r) ==
    IF r.kind = "threw" THEN OrElse(r.message, "Failed to save attendance")
    ELSE OrElse(OrElse(r.message, "Failed to save attendance"),
                "Failed to save attendance")

\* the continuation with a callback that adds the records to the list
saveAttendanceCompletes_Appends(seen) ==
    /\ showFaceRecognition
    /\ saveCall # NoCall
    /\ saveCall.st = "resp"
    /\ IF ~saveFailed(saveCall.resp)
       THEN \* toast, onAttendanceSaved(editedResults), onClose(), with the
            \* list and the date of the render saveAttendance was clicked in
            /\ toasts' = <<"Attendance Saved", "Processed students">>
            /\ attendance' = attendance \o
                    attendanceRecords(saveCall.attendance_results, saveCall.date)
            /\ showFaceRecognition' = FALSE
            /\ Mounted
       ELSE /\ error' = saveError(saveCall.resp)
            /\ currentStep' = "review"
            /\ toasts' = <<"Save Failed">>
            /\ saving' = FALSE
            /\ UNCHANGED <<attendance, showFaceRecognition, classPhoto,
                           attendanceResults, editedResults, processing>>
    /\ saveCall' = NoCall
    /\ lastOp' = [op |-> "saveAttendanceDone", failed |-> saveCall.resp.failed,
                  sent |-> Len(saveCall.attendance_results),
                  replaced |-> IF seen THEN attendance ELSE <<>>]
    /\ UNCHANGED <<classVars, trainVars, students, selectedDate, recCall, recOrphan, saveOrphan, markVars>>

\* saveAttendance (after the fetch); with seen, the list that the callback
\* replaces is recorded in lastOp
saveAttendanceCompletes(seen) ==
    /\ showFaceRecognition
    /\ saveCall # NoCall
    /\ saveCall.st = "resp"
    /\ IF ~saveFailed(saveCall.resp)
       THEN \* toast, onAttendanceSaved(editedResults), onClose(), with the
            \* list and the date of the render saveAttendance was clicked in
            /\ toasts' = <<"Attendance Saved", "Processed students">>
            /\ attendance' = attendanceRecords(saveCall.attendance_results,
                                               saveCall.date)
            /\ showFaceRecognition' = FALSE
            /\ Mounted
       ELSE /\ error' = saveError(saveCall.resp)
            /\ currentStep' = "review"
            /\ toasts' = <<"Save Failed">>
            /\ saving' = FALSE
            /\ UNCHANGED <<attendance, showFaceRecognition, classPhoto,
                           attendanceResults, editedResults, processing>>
    /\ saveCall' = NoCall
    /\ lastOp' = [op |-> "saveAttendanceDone", failed |-> saveCall.resp.failed,
                  sent |-> Len(saveCall.attendance_results),
                  replaced |-> IF seen THEN attendance ELSE <<>>]
    /\ UNCHANGED <<classVars, trainVars, students, selectedDate, recCall, recOrphan, saveOrphan, markVars>>

saveAttendanceDone == saveAttendanceCompletes(FALSE)

----------------------------------------------------------------------------
(* Recognition service *)

\* answers of /mass-recognition to a call: a failure ...
recFailures ==
    {[kind |-> k, success |-> FALSE, message |-> m, attendance_results |-> <<>>] :
        k \in {"threw", "not_ok", "ok"}, m \in Messages}

\* ... or the list reconciled from the detections D of the photo
recSuccess(D) ==
    [kind |-> "ok", success |-> TRUE, message |-> "",
     attendance_results |-> reconcile(students, D, similarity_threshold)]

recResponses ==
    recFailures \cup
    (IF students = <<>> THEN {} ELSE {recSuccess(D) : D \in DetectionLists})

\* the service handles the call: it fails, or the recognizer finds
\* detections D of DL and the roster is reconciled with them (seen: the
\* detections are observed in lastOp)
massRecognition(DL, seen) ==
    /\ recCall # NoCall
    /\ recCall.st = "sent"
    /\ \/ \E r \in recFailures :
            /\ recCall' = [st |-> "resp", photo |-> recCall.photo, resp |-> r]
            /\ lastOp' = [op |-> "massRecognition", detections |-> <<>>]
       \/ /\ students # <<>>
          /\ \E D \in DL :
               /\ recCall' = [st |-> "resp", photo |-> recCall.photo,
                              resp |-> recSuccess(D)]
               /\ lastOp' = [op |-> "massRecognition",
                             detections |-> IF seen THEN D ELSE <<>>]
    /\ toasts' = <<>>
    /\ UNCHANGED <<classVars, trainVars, pageVars, compVars, saveCall, recOrphan, saveOrphan, markVars>>

MassRecognition == massRecognition(DetectionLists, FALSE)

\* commit: per-student upsert of the decisions; the writes of the students
\* in failed are refused, the others take effect.  The rows live in the
\* service's own table, which the client never reads: the outcome reaches
\* the client in the response only.
commitResponse(decisions, failed) ==
    [kind |-> "ok", success |-> failed = {},
     saved_records |-> Len(decisions) - Cardinality(failed),
     message |-> IF failed = {} THEN "" ELSE "service message",
     failed |-> failed]

saveResponses(c) ==
    {[kind |-> k, success |-> FALSE, saved_records |-> 0, message |-> m,
      failed |-> Range(Ids(c.attendance_results))] :
        k \in {"threw", "not_ok"}, m \in Messages}
    \cup
    {commitResponse(c.attendance_results, F) :
        F \in SUBSET Range(Ids(c.attendance_results))}

SaveAttendanceService ==
    /\ saveCall # NoCall
    /\ saveCall.st = "sent"
    /\ \E r \in saveResponses(saveCall) :
        /\ saveCall' = [st |-> "resp", date |-> saveCall.date,
                        attendance_results |-> saveCall.attendance_results,
                        resp |-> r]
    /\ toasts' = <<>>
    /\ lastOp' = [op |-> "saveAttendanceService"]
    /\ UNCHANGED <<classVars, trainVars, pageVars, compVars, recCall, recOrphan, saveOrphan, markVars>>

\* the save call of an unmounted component is handled by the service and
\* completes with response r: the continuation still toasts and still calls
\* the callbacks of the page
saveAttendanceDoneUnmounted(r) ==
    /\ saveOrphan # NoCall
    /\ IF ~saveFailed(r)
       THEN /\ toasts' = <<"Attendance Saved", "Processed students">>
            /\ attendance' = attendanceRecords(saveOrphan.attendance_results,
                                               saveOrphan.date)
            /\ showFaceRecognition' = FALSE
            /\ Unmount(recOrphan, NoCall)
       ELSE /\ toasts' = <<"Save Failed">>
            /\ saveOrphan' = NoCall
            /\ UNCHANGED <<attendance, showFaceRecognition, compVars,
                           recCall, saveCall, recOrphan>>
    /\ lastOp' = [op |-> "saveAttendanceDoneUnmounted", failed |-> r.failed,
                  sent |-> Len(saveOrphan.attendance_results)]
    /\ UNCHANGED <<classVars, trainVars, students, selectedDate, markVars>>

----------------------------------------------------------------------------
(* Manual marking on the Attendance page *)

\* rows of the attendance table with the key (student, date); subject and
\* marking faculty are those of the page and the same in every row
rowsOf(rows, s, d) == {r \in rows : r.user_id = s /\ r.date = d}

\* attendance.findIndex(a => a.user_id === studentId && a.date === selectedDate
\*                           && a.subject === selectedSubject), 0 for -1
findIndex(att, s, d) ==
    IF \E i \in 1..Len(att) : att[i].user_id = s /\ att[i].date = d
    THEN CHOOSE i \in 1..Len(att) :
            /\ att[i].user_id = s /\ att[i].date = d
            /\ \A j \in 1..(i - 1) : ~(att[j].user_id = s /\ att[j].date = d)
    ELSE 0

\* a table without the unique constraint
insertConflicts_Never(rows, s, d) == FALSE

\* insert([record]): refused with 23505 when the key has a row
\* (UNIQUE(student_id, date, subject, marked_by))
insertConflicts(rows, s, d) == rowsOf(rows, s, d) # {}
insert(rows, s, d, st) == rows \cup {[user_id |-> s, date |-> d, status |-> st]}

\* update({status}).eq(user_id).eq(date).eq(subject).eq(marked_by)
update(rows, s, d, st) ==
    {IF r.user_id = s /\ r.date = d THEN [r EXCEPT !.status = st] ELSE r : r \in rows}

\* .select().single(): the row, when there is exactly one
single(rows, s, d) == Cardinality(rowsOf(rows, s, d)) = 1
theRow(rows, s, d) == CHOOSE r \in rowsOf(rows, s, d) : TRUE

\* the list with the record at index idx replaced (pushed when idx = 0)
putRecord(att, idx, rec) ==
    IF idx > 0 THEN [att EXCEPT ![idx] = rec] ELSE Append(att, rec)

NoBatch == [todo |-> <<>>]
NoReport == [s \in Students |-> "none"]

\* One write of markAttendance and what follows it up to the next await.
\* call is the closure of the handler: student, status, and the date and the
\* attendance list of the render the handler was created in.  path is
\* "update" (the list has a record of the key), "insert" (it has none) or
\* "retry" (update after the insert was refused with 23505).
markWrite(call, path, rep, rej) ==
    LET s == call.student
        d == call.date
        idx == findIndex(call.att, s, d)
    IN
    \E accepted \in BOOLEAN :
        LET conflict == path = "insert" /\ accepted /\ insertConflicts(store, s, d)
            written == /\ accepted
                       /\ IF path = "insert" THEN ~insertConflicts(store, s, d)
                          ELSE single(store, s, d)
        IN
        /\ IF written
           THEN /\ store' = IF path = "insert" THEN insert(store, s, d, call.status)
                            ELSE update(store, s, d, call.status)
                /\ attendance' = putRecord(call.att, idx, theRow(store', s, d))
                /\ report' = [rep EXCEPT ![s] = "succeeded"]
                /\ rejected' = rej
                /\ toasts' = <<"Success">>
                /\ markPc' = "idle"
                /\ markCall' = NoCall
           ELSE /\ markPc' = IF conflict THEN "retry" ELSE "check"
                /\ markCall' = call
                /\ report' = rep
                /\ rejected' = IF conflict THEN rej ELSE rej \cup {s}
                /\ toasts' = <<>>
                /\ UNCHANGED <<store, attendance>>
        /\ lastOp' = [op |-> "markAttendance", student |-> s, status |-> call.status,
                      path |-> path, written |-> written,
                      done |-> written, inBatch |-> call.inBatch]

\* getAttendanceStatus(studentId): the status of the first record of the
\* student in the list, '' when there is none
getAttendanceStatus(studentId) ==
    IF \E i \in 1..Len(attendance) : attendance[i].user_id = studentId
    THEN attendance[CHOOSE i \in 1..Len(attendance) :
                        /\ attendance[i].user_id = studentId
                        /\ \A j \in 1..(i - 1) : attendance[j].user_id # studentId].status
    ELSE ""

\* getAttendanceStats(): counts over the whole list
getAttendanceStats ==
    [st \in Statuses |->
        Cardinality({i \in 1..Len(attendance) : attendance[i].status = st})]

\* markAttendance(studentId, status), clicked on a student's row
markAttendance(s, st) ==
    /\ ~showFaceRecognition
    /\ markPc = "idle"
    /\ batch = NoBatch
    /\ s \in Range(students)
    /\ LET call == [student |-> s, status |-> st, date |-> selectedDate,
                    att |-> attendance, inBatch |-> FALSE]
       IN markWrite(call,
                    IF findIndex(attendance, s, selectedDate) > 0
                    THEN "update" ELSE "insert",
                    NoReport, {})
    /\ batch' = batch
    /\ UNCHANGED <<classVars, trainVars, students, selectedDate, showFaceRecognition, compVars, callVars>>

\* the update that follows an insert refused as a duplicate
markAttendanceRetry ==
    /\ markPc = "retry"
    /\ markWrite(markCall, "retry", report, rejected)
    /\ batch' = batch
    /\ UNCHANGED <<classVars, trainVars, students, selectedDate, showFaceRecognition, compVars, callVars>>

\* the catch block: "check if the record was actually saved"
markAttendanceCheck ==
    /\ markPc = "check"
    /\ LET s == markCall.student
           d == markCall.date
       IN
       /\ IF single(store, s, d)
          THEN /\ attendance' = putRecord(markCall.att, findIndex(markCall.att, s, d),
                                          theRow(store, s, d))
               /\ report' = [report EXCEPT ![s] = "succeeded"]
               /\ toasts' = <<"Success">>
          ELSE /\ report' = [report EXCEPT ![s] = "failed"]
               /\ toasts' = <<"Error">>
               /\ UNCHANGED attendance
       /\ lastOp' = [op |-> "markAttendance", student |-> s,
                     status |-> markCall.status, path |-> "check",
                     written |-> FALSE, done |-> TRUE, inBatch |-> markCall.inBatch]
    /\ markPc' = "idle"
    /\ markCall' = NoCall
    /\ UNCHANGED <<classVars, trainVars, students, selectedDate, showFaceRecognition, compVars, callVars,
                   store, batch, rejected>>

\* markAllPresent, clicked: the loop starts in the closure of this render
markAllPresent ==
    /\ ~showFaceRecognition
    /\ markPc = "idle"
    /\ batch = NoBatch
    /\ students # <<>>
    /\ batch' = [todo |-> students, att |-> attendance, date |-> selectedDate]
    /\ report' = NoReport
    /\ rejected' = {}
    /\ toasts' = <<>>
    /\ lastOp' = [op |-> "markAllPresent"]
    /\ UNCHANGED <<classVars, trainVars, pageVars, compVars, callVars, store, markPc, markCall>>

\* one iteration of the loop: await markAttendance(student.user_id, 'present')
markAllPresentNext ==
    /\ batch # NoBatch
    /\ markPc = "idle"
    /\ LET s == Head(batch.todo)
           call == [student |-> s, status |-> "present", date |-> batch.date,
                    att |-> batch.att, inBatch |-> TRUE]
       IN markWrite(call,
                    IF findIndex(batch.att, s, batch.date) > 0
                    THEN "update" ELSE "insert",
                    report, rejected)
    /\ batch' = IF Len(batch.todo) = 1 THEN NoBatch
                ELSE [batch EXCEPT !.todo = Tail(batch.todo)]
    /\ UNCHANGED <<classVars, trainVars, students, selectedDate, showFaceRecognition, compVars, callVars>>

\* saveAllAttendance that looks for the row of each record's own date
saveAllAttendance_OwnDate(answered, historyOk) ==
    /\ ~showFaceRecognition
    /\ answered \subseteq 1..Len(attendance)
    /\ LET found(i) == /\ i \in answered
                       /\ single(store, attendance[i].user_id, attendance[i].date)
           unsavedCount == Cardinality({i \in 1..Len(attendance) : ~found(i)})
       IN
       /\ toasts' = IF selectedClass = NoClass THEN <<"Missing Information">>
                    ELSE IF Len(attendance) = 0 THEN <<"No Attendance Marked">>
                    ELSE IF unsavedCount > 0 THEN <<"Warning">>
                    ELSE IF historyOk THEN <<"Attendance Saved Successfully">>
                    ELSE <<"Error">>
       /\ lastOp' = [op |-> "saveAllAttendance",
                     requests |-> IF selectedClass = NoClass THEN 0
                                  ELSE Len(attendance)]
    /\ UNCHANGED <<classVars, trainVars, pageVars, compVars, callVars, markVars>>

\* saveAllAttendance, clicked: one query per record of the list for the row of
\* (record.user_id, selected date); answered are the queries that returned,
\* historyOk says whether the refresh of the history view succeeded.  The
\* subject and the class type are chosen on this page.
saveAllAttendance(answered, historyOk) ==
    /\ ~showFaceRecognition
    /\ answered \subseteq 1..Len(attendance)
    /\ LET found(i) == /\ i \in answered
                       /\ single(store, attendance[i].user_id, selectedDate)
           unsavedCount == Cardinality({i \in 1..Len(attendance) : ~found(i)})
       IN
       /\ toasts' = IF selectedClass = NoClass THEN <<"Missing Information">>
                    ELSE IF Len(attendance) = 0 THEN <<"No Attendance Marked">>
                    ELSE IF unsavedCount > 0 THEN <<"Warning">>
                    ELSE IF historyOk THEN <<"Attendance Saved Successfully">>
                    ELSE <<"Error">>
       /\ lastOp' = [op |-> "saveAllAttendance",
                     requests |-> IF selectedClass = NoClass THEN 0
                                  ELSE Len(attendance)]
    /\ UNCHANGED <<classVars, trainVars, pageVars, compVars, callVars, markVars>>

\* the date input is changed
setSelectedDate(d) ==
    /\ ~showFaceRecognition
    /\ markPc = "idle"
    /\ batch = NoBatch
    /\ d # selectedDate
    /\ selectedDate' = d
    /\ report' = NoReport
    /\ rejected' = {}
    /\ toasts' = <<>>
    /\ lastOp' = [op |-> "setSelectedDate"]
    /\ UNCHANGED <<classVars, trainVars, students, attendance, showFaceRecognition, compVars, callVars,
                   store, markPc, markCall, batch>>

\* the page is loaded again: its state starts afresh, the table stays
reload ==
    /\ ~showFaceRecognition
    /\ markPc = "idle"
    /\ batch = NoBatch
    /\ recOrphan = NoCall
    /\ saveOrphan = NoCall
    /\ attendance # <<>>
    /\ attendance' = <<>>
    /\ report' = NoReport
    /\ rejected' = {}
    /\ toasts' = <<>>
    /\ lastOp' = [op |-> "reload"]
    /\ UNCHANGED <<classVars, trainVars, students, selectedDate, showFaceRecognition, compVars, callVars,
                   store, markPc, markCall, batch>>

----------------------------------------------------------------------------
(* Class selection and the roster *)

\* a class card is clicked: setSelectedClass(classItem), then the effect on
\* selectedClass?.class_id, which calls fetchStudents unless that class is the
\* one marked as being fetched
setSelectedClass(c) ==
    /\ c # selectedClass
    /\ selectedClass' = c
    /\ IF fetchingStudents # c
       THEN /\ Len(rosterCalls) < MaxCalls
            /\ fetchingStudents' = c
            /\ rosterCalls' = Append(rosterCalls, c)
       ELSE UNCHANGED <<fetchingStudents, rosterCalls>>
    /\ toasts' = <<>>
    /\ lastOp' = [op |-> "setSelectedClass"]
    /\ UNCHANGED students
    /\ UNCHANGED <<attendance, selectedDate, showFaceRecognition, compVars, callVars,
                   markVars, trainVars>>

\* the Change Class button: setSelectedClass(null); the effect does nothing
changeClass ==
    /\ selectedClass # NoClass
    /\ selectedClass' = NoClass
    /\ toasts' = <<>>
    /\ lastOp' = [op |-> "changeClass"]
    /\ UNCHANGED <<students, fetchingStudents, rosterCalls>>
    /\ UNCHANGED <<attendance, selectedDate, showFaceRecognition, compVars, callVars,
                   markVars, trainVars>>

\* fetchStudents (after the query) of the k-th call in flight; ok: the query
\* returned the rows of the class
fetchStudentsDone(k, ok) ==
    /\ k \in 1..Len(rosterCalls)
    /\ IF ok
       THEN /\ students' = student_records[rosterCalls[k]]
            /\ toasts' = <<>>
       ELSE /\ toasts' = <<"Error">>
            /\ UNCHANGED students
    /\ fetchingStudents' = NoClass
    /\ rosterCalls' = [i \in 1..(Len(rosterCalls) - 1) |->
                         IF i < k THEN rosterCalls[i] ELSE rosterCalls[i + 1]]
    /\ lastOp' = [op |-> "fetchStudentsDone", ok |-> ok]
    /\ UNCHANGED selectedClass
    /\ UNCHANGED <<attendance, selectedDate, showFaceRecognition, compVars, callVars,
                   markVars, trainVars>>

----------------------------------------------------------------------------
(* FaceUploadComponent *)

MAX_IMAGES == 5
FaceUpload_MAX_FILE_SIZE == 10 * 1024 * 1024

TrainFiles == {[type |-> "image/png", size |-> FaceUpload_MAX_FILE_SIZE],
               [type |-> "image/jpeg", size |-> 1],
               [type |-> "image/gif", size |-> 1],
               [type |-> "image/png", size |-> FaceUpload_MAX_FILE_SIZE + 1]}

\* a FileList of a selection or a drop
FileLists == SeqsUpTo(TrainFiles, MaxFiles) \ {<<>>}

FaceUpload_validateFile(file) ==
    IF file.type \notin ACCEPTED_TYPES
    THEN [valid |-> FALSE, error |-> "Only JPEG and PNG images are allowed"]
    ELSE IF file.size > FaceUpload_MAX_FILE_SIZE
    THEN [valid |-> FALSE, error |-> "File size must be less than 10MB"]
    ELSE [valid |-> TRUE, error |-> ""]

UploadedImage(file) ==
    [file |-> file,
     status |-> IF FaceUpload_validateFile(file).valid THEN "valid" ELSE "invalid"]

\* the loop of handleFileSelect: files are taken while
\* images.length + newImages.length < MAX_IMAGES
RECURSIVE newImages(_, _, _)
newImages(files, have, acc) ==
    IF files = <<>> \/ ~(have + Len(acc) < MAX_IMAGES) THEN acc
    ELSE newImages(Tail(files), have, Append(acc, UploadedImage(Head(files))))

\* the loop with the bound images.length < MAX_IMAGES
RECURSIVE newImages_BoundOnOld(_, _, _)
newImages_BoundOnOld(files, have, acc) ==
    IF files = <<>> \/ ~(have < MAX_IMAGES) THEN acc
    ELSE newImages_BoundOnOld(Tail(files), have, Append(acc, UploadedImage(Head(files))))

\* handleFileSelect that bounds the loop by images.length alone
FaceUpload_handleFileSelect_BoundOnOld(files) ==
    /\ images' = images \o newImages_BoundOnOld(files, Len(images), <<>>)
    /\ uploadError' = NoError
    /\ toasts' = IF Len(files) + Len(images) > MAX_IMAGES
                 THEN <<"Too many files">> ELSE <<>>
    /\ lastOp' = [op |-> "FaceUpload.handleFileSelect", files |-> Len(files)]
    /\ UNCHANGED <<uploading, success, trainCall>>
    /\ UNCHANGED <<pageVars, compVars, callVars, markVars, classVars>>

\* handleFileSelect(files), from the file input or a drop
FaceUpload_handleFileSelect(files) ==
    /\ images' = images \o newImages(files, Len(images), <<>>)
    /\ uploadError' = NoError
    /\ toasts' = IF Len(files) + Len(images) > MAX_IMAGES
                 THEN <<"Too many files">> ELSE <<>>
    /\ lastOp' = [op |-> "FaceUpload.handleFileSelect", files |-> Len(files)]
    /\ UNCHANGED <<uploading, success, trainCall>>
    /\ UNCHANGED <<pageVars, compVars, callVars, markVars, classVars>>

\* removeImage(id) of the i-th image
removeImage(i) ==
    /\ i \in 1..Len(images)
    /\ images' = [k \in 1..(Len(images) - 1) |->
                    IF k < i THEN images[k] ELSE images[k + 1]]
    /\ toasts' = <<>>
    /\ lastOp' = [op |-> "removeImage"]
    /\ UNCHANGED <<uploadError, uploading, success, trainCall>>
    /\ UNCHANGED <<pageVars, compVars, callVars, markVars, classVars>>

\* the Clear All button
clearAll ==
    /\ ~success
    /\ images # <<>>
    /\ ~uploading
    /\ images' = <<>>
    /\ uploadError' = NoError
    /\ toasts' = <<>>
    /\ lastOp' = [op |-> "clearAll"]
    /\ UNCHANGED <<uploading, success, trainCall>>
    /\ UNCHANGED <<pageVars, compVars, callVars, markVars, classVars>>

validImages == SelectSeq(images, LAMBDA img : img.status = "valid")
filesOf(imgs) == [k \in 1..Len(imgs) |-> imgs[k].file]

\* handleUpload that sends every added image
handleUpload_AllImages ==
    /\ ~uploading
    /\ ~success
    /\ IF Len(validImages) = 0
       THEN /\ uploadError' = "Please add at least one valid image"
            /\ UNCHANGED <<uploading, trainCall>>
       ELSE IF Len(validImages) < 2
       THEN /\ uploadError' = "Please add at least 2 images for better accuracy"
            /\ UNCHANGED <<uploading, trainCall>>
       ELSE /\ uploading' = TRUE
            /\ uploadError' = NoError
            /\ trainCall' = [images |-> filesOf(images)]
    /\ toasts' = <<>>
    /\ lastOp' = [op |-> "handleUpload", valid |-> Len(validImages)]
    /\ UNCHANGED <<images, success>>
    /\ UNCHANGED <<pageVars, compVars, callVars, markVars, classVars>>

\* handleUpload (up to the fetch).  The handler makes its own check of the
\* number of valid images, whatever the disabled attribute of the button.
handleUpload ==
    /\ ~uploading
    /\ ~success
    /\ IF Len(validImages) = 0
       THEN /\ uploadError' = "Please add at least one valid image"
            /\ UNCHANGED <<uploading, trainCall>>
       ELSE IF Len(validImages) < 2
       THEN /\ uploadError' = "Please add at least 2 images for better accuracy"
            /\ UNCHANGED <<uploading, trainCall>>
       ELSE /\ uploading' = TRUE
            /\ uploadError' = NoError
            /\ trainCall' = [images |-> filesOf(validImages)]
    /\ toasts' = <<>>
    /\ lastOp' = [op |-> "handleUpload", valid |-> Len(validImages)]
    /\ UNCHANGED <<images, success>>
    /\ UNCHANGED <<pageVars, compVars, callVars, markVars, classVars>>

\* answers of /train-student
trainResponses ==
    {[kind |-> k, success |-> FALSE, message |-> m] :
        k \in {"threw", "not_ok", "ok"}, m \in Messages}
    \cup {[kind |-> "ok", success |-> TRUE, message |-> ""]}

\* handleUpload (after the fetch), on the answer r of /train-student
handleUploadDone(r) ==
    /\ trainCall # NoCall
    /\ IF r.kind = "ok" /\ r.success
       THEN /\ success' = TRUE
            /\ images' = <<>>
            /\ toasts' = <<"Face Training Successful">>
            /\ UNCHANGED uploadError
       ELSE /\ uploadError' =
                 IF r.kind = "threw" THEN OrElse(r.message, "Failed to upload images")
                 ELSE OrElse(OrElse(r.message,
                                    IF r.kind = "not_ok" THEN "Upload failed"
                                    ELSE "Training failed"),
                             "Failed to upload images")
            /\ toasts' = <<"Upload Failed">>
            /\ UNCHANGED <<images, success>>
    /\ uploading' = FALSE
    /\ trainCall' = NoCall
    /\ lastOp' = [op |-> "handleUploadDone"]
    /\ UNCHANGED <<pageVars, compVars, callVars, markVars, classVars>>

\* the Train More Images button
trainMore ==
    /\ success
    /\ success' = FALSE
    /\ uploadError' = NoError
    /\ toasts' = <<>>
    /\ lastOp' = [op |-> "trainMore"]
    /\ UNCHANGED <<images, uploading, trainCall>>
    /\ UNCHANGED <<pageVars, compVars, callVars, markVars, classVars>>

----------------------------------------------------------------------------
(* The mass-recognition session *)

MarkIdle ==
    /\ store = {}
    /\ markPc = "idle"
    /\ markCall = NoCall
    /\ batch = NoBatch
    /\ report = NoReport
    /\ rejected = {}

ClassIdle ==
    /\ fetchingStudents = NoClass
    /\ rosterCalls = <<>>

TrainIdle ==
    /\ images = <<>>
    /\ uploadError = NoError
    /\ uploading = FALSE
    /\ success = FALSE
    /\ trainCall = NoCall

\* a class is selected and its roster is loaded
\* the state of the page and its components but for the class and its roster
InitRest ==
    /\ ClassIdle
    /\ TrainIdle
    /\ attendance = <<>>
    /\ selectedDate = "d1"
    /\ showFaceRecognition = FALSE
    /\ currentStep = "upload"
    /\ classPhoto = NoFile
    /\ error = NoError
    /\ attendanceResults = <<>>
    /\ editedResults = <<>>
    /\ processing = FALSE
    /\ saving = FALSE
    /\ recCall = NoCall
    /\ saveCall = NoCall
    /\ recOrphan = NoCall
    /\ saveOrphan = NoCall
    /\ MarkIdle
    /\ toasts = <<>>
    /\ lastOp = [op |-> "init"]

\* a class has been chosen and its roster has arrived
Init ==
    /\ selectedClass \in ClassIds
    /\ students = student_records[selectedClass]
    /\ InitRest

\* the page as first rendered: no class chosen
InitClass ==
    /\ selectedClass = NoClass
    /\ students = <<>>
    /\ InitRest

Next ==
    \/ OpenFaceRecognition
    \/ \E f \in Files : handleFileSelect(f)
    \/ chooseDifferentPhoto
    \/ processClassPhoto
    \/ MassRecognition
    \/ processClassPhotoDone
    \/ \E r \in recResponses : processClassPhotoDoneUnmounted(r)
    \/ \E s \in Students, st \in Statuses : updateStudentStatus(s, st)
    \/ uploadDifferentPhoto
    \/ saveAttendance
    \/ SaveAttendanceService
    \/ saveAttendanceDone
    \/ saveOrphan # NoCall /\ \E r \in saveResponses(saveOrphan) : saveAttendanceDoneUnmounted(r)
    \/ onClose

Spec == Init /\ [][Next]_vars

----------------------------------------------------------------------------
(* Manual marking *)

NextMark ==
    \/ \E s \in Students, st \in Statuses : markAttendance(s, st)
    \/ markAttendanceRetry
    \/ markAttendanceCheck
    \/ markAllPresent
    \/ markAllPresentNext
    \/ \E d \in Dates : setSelectedDate(d)
    \/ reload

SpecMark == Init /\ [][NextMark]_vars

----------------------------------------------------------------------------
(* Recognition and review, with the detections observed *)

NextRec ==
    \/ OpenFaceRecognition
    \/ \E f \in Files : handleFileSelect(f)
    \/ processClassPhoto
    \/ massRecognition(WideDetectionLists, TRUE)
    \/ processClassPhotoDone
    \/ \E s \in Students, st \in Statuses : updateStudentStatus(s, st)
    \/ uploadDifferentPhoto
    \/ onClose

SpecRec == Init /\ [][NextRec]_vars

----------------------------------------------------------------------------
(* Recognition, review and save, with the detections observed; every        *)
(* detection clears the threshold                                           *)

NextSure ==
    \/ OpenFaceRecognition
    \/ \E f \in Files : handleFileSelect(f)
    \/ processClassPhoto
    \/ massRecognition(SureDetectionLists, TRUE)
    \/ processClassPhotoDone
    \/ \E s \in Students, st \in Statuses : updateStudentStatus(s, st)
    \/ saveAttendance
    \/ SaveAttendanceService
    \/ saveAttendanceDone
    \/ onClose

SpecSure == Init /\ [][NextSure]_vars

----------------------------------------------------------------------------
(* Sessions that may be opened while the save call of a closed one is in    *)
(* flight; the recognizer detects nobody                                    *)

NextReopen ==
    \/ showPanel
    \/ \E f \in Files : handleFileSelect(f)
    \/ processClassPhoto
    \/ massRecognition({<<>>}, FALSE)
    \/ processClassPhotoDone
    \/ \E s \in Students, st \in Statuses : updateStudentStatus(s, st)
    \/ saveAttendance
    \/ SaveAttendanceService
    \/ saveAttendanceDone
    \/ saveOrphan # NoCall /\ \E r \in saveResponses(saveOrphan) : saveAttendanceDoneUnmounted(r)
    \/ onClose

SpecReopen == Init /\ [][NextReopen]_vars

----------------------------------------------------------------------------
(* Sessions on a page with manually marked records; the recognizer detects  *)
(* nobody, and the list that a save replaces is observed                    *)

NextOverwrite ==
    \/ \E s \in Students, st \in Statuses : markAttendance(s, st)
    \/ markAttendanceRetry
    \/ markAttendanceCheck
    \/ reload
    \/ OpenFaceRecognition
    \/ \E f \in Files : handleFileSelect(f)
    \/ processClassPhoto
    \/ massRecognition({<<>>}, FALSE)
    \/ processClassPhotoDone
    \/ \E s \in Students, st \in Statuses : updateStudentStatus(s, st)
    \/ saveAttendance
    \/ SaveAttendanceService
    \/ saveAttendanceCompletes(TRUE)
    \/ onClose

SpecOverwrite == Init /\ [][NextOverwrite]_vars

----------------------------------------------------------------------------
(* Manual marks, one at a time, and the Save Attendance button *)

NextSaveAll ==
    \/ \E s \in Students, st \in Statuses : markAttendance(s, st)
    \/ markAttendanceRetry
    \/ markAttendanceCheck
    \/ \E d \in Dates : setSelectedDate(d)
    \/ reload
    \/ \E answered \in SUBSET (1..Len(attendance)), historyOk \in BOOLEAN :
          saveAllAttendance(answered, historyOk)

SpecSaveAll == Init /\ [][NextSaveAll]_vars

----------------------------------------------------------------------------
(* Class selection; every roster query returns its rows *)

NextClass ==
    \/ \E c \in ClassIds : setSelectedClass(c)
    \/ changeClass
    \/ \E k \in 1..MaxCalls : fetchStudentsDone(k, TRUE)

SpecClass == InitClass /\ [][NextClass]_vars

----------------------------------------------------------------------------
(* Face training upload *)

NextTrain ==
    \/ \E files \in FileLists : FaceUpload_handleFileSelect(files)
    \/ \E i \in 1..MAX_IMAGES : removeImage(i)
    \/ clearAll
    \/ handleUpload
    \/ \E r \in trainResponses : handleUploadDone(r)
    \/ trainMore

\* the upload component is mounted for one student, whatever the class
InitTrain == Init /\ selectedClass = "c1"

SpecTrain == InitTrain /\ [][NextTrain]_vars

----------------------------------------------------------------------------
(* Properties *)

InReview == showFaceRecognition /\ currentStep = "review"

\* the students the component shows as failed after a save: neither its state
\* nor a row of its review list carries a per-student failure
failedShown == {}

\* C1: whenever the session is in the review step, its decision list has
\* exactly one decision per student of the roster: as many decisions as
\* students, none missing, none twice.
C1_Coverage ==
    InReview =>
        /\ Len(editedResults) = Len(students)
        /\ \A s \in Range(students) :
              Cardinality({i \in 1..Len(editedResults) :
                             editedResults[i].student_id = s}) = 1

\* a review of a two-student roster in which nobody was detected (no
\* detection, or detections of identities outside the roster only)
C1_Witness ==
    /\ InReview
    /\ Len(students) = 2
    /\ \A i \in 1..Len(editedResults) : ~editedResults[i].detected

\* C2: the attendance table never holds two rows of one (student, date,
\* subject, marking faculty) key, and a markAttendance call whose write the
\* store accepted leaves exactly one row of its key, carrying the status of
\* the call, and reports success -- whether the key had a row before (second
\* commit) or not (first commit).
C2_IdempotentCommit ==
    /\ \A r1, r2 \in store :
          (r1.user_id = r2.user_id /\ r1.date = r2.date) => r1 = r2
    /\ (lastOp.op = "markAttendance" /\ lastOp.written) =>
          /\ rowsOf(store, lastOp.student, selectedDate)
               = {[user_id |-> lastOp.student, date |-> selectedDate,
                   status |-> lastOp.status]}
          /\ report[lastOp.student] = "succeeded"

\* a second commit of a key inside a markAllPresent loop: the list of the
\* loop's closure lacks the record, the insert is refused as a duplicate and
\* the update that follows is accepted
C2_Witness ==
    /\ lastOp.op = "markAttendance"
    /\ lastOp.written
    /\ lastOp.path = "retry"
    /\ lastOp.inBatch

\* C3: after a markAllPresent batch in which the store refused the write of
\* exactly one student, that student is reported failed, every other student
\* of the roster is reported succeeded and has a present row.
C3_PartialFailureIsolation ==
    (/\ lastOp.op = "markAttendance"
     /\ lastOp.inBatch
     /\ lastOp.done
     /\ batch = NoBatch
     /\ Cardinality(rejected) = 1) =>
        \A s \in Range(students) :
            IF s \in rejected
            THEN report[s] = "failed"
            ELSE /\ report[s] = "succeeded"
                 /\ rowsOf(store, s, selectedDate)
                      = {[user_id |-> s, date |-> selectedDate, status |-> "present"]}

\* C4: after a save that failed for some students, the session is back in
\* review with exactly those students flagged and the list still there.
C4_FailedSaveBackToReviewFlagged ==
    (lastOp.op = "saveAttendanceDone" /\ lastOp.failed # {}) =>
        /\ InReview
        /\ Len(editedResults) = lastOp.sent
        /\ failedShown = lastOp.failed

\* C5: the session is closed by a save only when no student's record failed,
\* and a save with failed records leaves it open with those students reported.
C5_NoCloseOnPartialFailure ==
    lastOp.op = "saveAttendanceDone" =>
        /\ ~showFaceRecognition => lastOp.failed = {}
        /\ lastOp.failed # {} => (showFaceRecognition /\ failedShown = lastOp.failed)

C7_LateResultDiscarded ==
    [][lastOp'.op = "processClassPhotoDoneUnmounted" =>
          /\ UNCHANGED compVars
          /\ attendance' = attendance
          /\ \A i \in 1..Len(toasts') : toasts'[i] # "Face Recognition Complete"]_vars

\* C8: when the recognizer call fails (exception, non-OK response, or
\* success = false), its continuation puts the session in the upload step
\* with a non-empty error, keeps the selected image and leaves the decision
\* list alone.
C8_RecognizerFailure ==
    [][(/\ lastOp'.op = "processClassPhotoDone"
        /\ recCall.st = "resp"
        /\ \/ recCall.resp.kind \in {"threw", "not_ok"}
           \/ ~recCall.resp.success) =>
          /\ currentStep = "processing"
          /\ currentStep' = "upload"
          /\ error' \notin {NoError, ""}
          /\ classPhoto' = classPhoto
          /\ classPhoto' = recCall.photo
          /\ editedResults' = editedResults]_vars

\* a failure whose response carried no message: the fallback text is shown
C8_Witness ==
    /\ lastOp.op = "processClassPhotoDone"
    /\ showFaceRecognition
    /\ currentStep = "upload"
    /\ error = "Face recognition failed"
    /\ classPhoto # NoFile

FileAllowed(f) ==
    /\ f.type \in {"image/jpeg", "image/jpg", "image/png"}
    /\ f.size <= 20 * 1024 * 1024

\* C9: selecting a file that is not a JPEG/PNG of at most 20MB leaves the
\* session in the upload step with an error, does not change the selected
\* image and sends nothing; the selected image and the image of a recognizer
\* call are always allowed files.
C9_InvalidImageRejected ==
    /\ [](classPhoto # NoFile => FileAllowed(classPhoto))
    /\ [](recCall # NoCall => FileAllowed(recCall.photo))
    /\ [][(lastOp'.op = "handleFileSelect" /\ ~FileAllowed(lastOp'.file)) =>
            /\ currentStep = "upload"
            /\ currentStep' = "upload"
            /\ error' \notin {NoError, ""}
            /\ classPhoto' = classPhoto
            /\ recCall' = recCall]_vars

\* an oversized file was refused while a valid image stays selected
C9_Witness ==
    /\ lastOp.op = "handleFileSelect"
    /\ lastOp.file.size > MAX_FILE_SIZE
    /\ error = "File size must be less than 20MB"
    /\ classPhoto # NoFile

\* the recognizer call of the mounted component has a successful answer
RecSucceeded ==
    /\ currentStep = "processing"
    /\ recCall.st = "resp"
    /\ recCall.resp.kind = "ok"
    /\ recCall.resp.success

\* the list put up for review is the reconciled list of that answer
ReviewOfAnswer ==
    /\ editedResults' = recCall.resp.attendance_results
    /\ Ids(editedResults') = students
    /\ \E D \in DetectionLists :
          editedResults' = reconcile(students, D, similarity_threshold)

\* C10 as stated: review is entered only by a successful recognizer answer,
\* with the reconciled list of that answer.
C10_ReviewOnlyFromRecognizer ==
    [][(currentStep # "review" /\ currentStep' = "review") =>
          (RecSucceeded /\ ReviewOfAnswer)]_vars

\* C10 amended: review is entered either by a successful recognizer answer,
\* with the reconciled list of that answer, or by a failed save, with the
\* list that was sent, unchanged.
C10_ReviewEntry ==
    [][(currentStep # "review" /\ currentStep' = "review") =>
          \/ RecSucceeded /\ ReviewOfAnswer
          \/ /\ currentStep = "saving"
             /\ saveCall.st = "resp"
             /\ saveCall.resp.kind \in {"threw", "not_ok"} \/ ~saveCall.resp.success
             /\ editedResults' = editedResults
             /\ editedResults' = saveCall.attendance_results]_vars

\* review was entered by a recognizer answer: first student of the roster
\* detected, second not
C10_Witness ==
    /\ lastOp.op = "processClassPhotoDone"
    /\ InReview
    /\ Len(editedResults) = 2
    /\ editedResults[1].detected
    /\ ~editedResults[2].detected

\* C11: a manual edit in review keeps the session in review and keeps the
\* sequence of student identifiers of the list; an edit that names a student
\* without a decision in the list leaves the list as it is.
C11_EditKeepsCoverage ==
    [][lastOp'.op = "updateStudentStatus" =>
          /\ InReview
          /\ showFaceRecognition' /\ currentStep' = "review"
          /\ Ids(editedResults') = Ids(editedResults)
          /\ (\A i \in 1..Len(editedResults) :
                 editedResults[i].student_id # lastOp'.student)
               => editedResults' = editedResults]_vars

\* an edit named a student who has no decision in a non-empty list
C11_Witness ==
    /\ lastOp.op = "updateStudentStatus"
    /\ InReview
    /\ editedResults # <<>>
    /\ \A i \in 1..Len(editedResults) : editedResults[i].student_id # lastOp.student

\* C12: a manual edit changes nothing but the status of the decision of the
\* named student: that decision keeps its student identifier, confidence and
\* detection flag, every other decision keeps all its fields.
C12_EditChangesStatusOnly ==
    [][lastOp'.op = "updateStudentStatus" =>
          /\ Len(editedResults') = Len(editedResults)
          /\ \A i \in 1..Len(editedResults) :
               /\ editedResults'[i].student_id = editedResults[i].student_id
               /\ editedResults'[i].confidence = editedResults[i].confidence
               /\ editedResults'[i].detected = editedResults[i].detected
               /\ editedResults'[i].status =
                    IF editedResults[i].student_id = lastOp'.student
                    THEN lastOp'.status ELSE editedResults[i].status]_vars

\* a detected student was set to absent by an edit: the decision keeps the
\* confidence of the detection; the other decision of the list is there
C12_Witness ==
    /\ lastOp.op = "updateStudentStatus"
    /\ lastOp.status = "absent"
    /\ InReview
    /\ Len(editedResults) = 2
    /\ \E i \in 1..2 :
         /\ editedResults[i].student_id = lastOp.student
         /\ editedResults[i].detected
         /\ editedResults[i].status = "absent"
         /\ editedResults[i].confidence = similarity_threshold

\* C13: a roster student without matching detection gets the decision
\* absent, undetected, without confidence, and when the list is saved as the
\* recognizer produced it, the attendance record built for that student
\* carries the source face_recognition.
C13_DefaultAbsentSource ==
    [][(/\ lastOp'.op = "saveAttendanceDone"
        /\ ~showFaceRecognition'
        /\ editedResults = attendanceResults) =>
          \A i \in 1..Len(editedResults) :
              ~editedResults[i].detected =>
                  /\ editedResults[i].status = "absent"
                  /\ editedResults[i].confidence = NullConfidence
                  /\ attendance'[i].user_id = editedResults[i].student_id
                  /\ attendance'[i].status = "absent"
                  /\ attendance'[i].marked_via = "face_recognition"]_vars

\* the service has just answered a call with a reconciled list
Answered ==
    /\ lastOp.op = "massRecognition"
    /\ recCall.st = "resp"
    /\ recCall.resp.success

\* detections of the answer matched to student s
MatchesOf(s) == {k \in 1..Len(lastOp.detections) : lastOp.detections[k].student = s}

C15_HighestConfidenceWins ==
    Answered =>
        /\ Len(recCall.resp.attendance_results) = Len(students)
        /\ \A i \in 1..Len(students) :
              LET d == recCall.resp.attendance_results[i] IN
              /\ d.student_id = students[i]
              /\ d.detected =>
                    /\ \E k \in MatchesOf(students[i]) :
                          lastOp.detections[k].confidence = d.confidence
                    /\ \A k \in MatchesOf(students[i]) :
                          lastOp.detections[k].confidence <= d.confidence

\* two detections of the first student clear the threshold, the lower first
C15_Witness ==
    /\ Answered
    /\ students # <<>>
    /\ lastOp.detections = <<[student |-> students[1], confidence |-> 4],
                             [student |-> students[1], confidence |-> 5]>>
    /\ recCall.resp.attendance_results[1].confidence = 5

\* C16: every decision of an answer, of the review list and of a save
\* request, and every attendance record built from a saved list, is of a
\* student of the roster.
C16_RosterStudentsOnly ==
    /\ recCall.st = "resp" =>
          \A i \in 1..Len(recCall.resp.attendance_results) :
              recCall.resp.attendance_results[i].student_id \in Range(students)
    /\ \A i \in 1..Len(editedResults) :
          editedResults[i].student_id \in Range(students)
    /\ saveCall # NoCall =>
          \A i \in 1..Len(saveCall.attendance_results) :
              saveCall.attendance_results[i].student_id \in Range(students)
    /\ \A i \in 1..Len(attendance) : attendance[i].user_id \in Range(students)

\* after a session was saved, the answer of the next session comes from
\* a detection of an identity outside the roster that clears the threshold
C16_Witness ==
    /\ Answered
    /\ attendance # <<>>
    /\ \E k \in 1..Len(lastOp.detections) :
          /\ lastOp.detections[k].student \notin Range(students)
          /\ lastOp.detections[k].student # Unmatched
    /\ Len(recCall.resp.attendance_results) = Len(students)

\* C17: the list of an answer and the list in review name the students in
\* roster order, whatever the order of the detections and whatever edits
\* were made.
C17_RosterOrder ==
    /\ Answered => Ids(recCall.resp.attendance_results) = students
    /\ InReview => Ids(editedResults) = students

\* the second student of the roster, the only one detected, was edited
C17_Witness ==
    /\ lastOp.op = "updateStudentStatus"
    /\ InReview
    /\ Len(students) = 2
    /\ lastOp.student = students[2]
    /\ ~editedResults[1].detected
    /\ editedResults[2].detected

\* C18: a save request, of the open panel or of a closed one, always
\* carries at least one decision.
C18_SaveNeverEmpty ==
    /\ saveCall # NoCall => Len(saveCall.attendance_results) >= 1
    /\ saveOrphan # NoCall => Len(saveOrphan.attendance_results) >= 1

\* a save request was sent for the smallest roster
C18_Witness ==
    /\ lastOp.op = "saveAttendance"
    /\ saveCall # NoCall
    /\ Len(students) = 1
    /\ Len(saveCall.attendance_results) = 1

\* the attendance-saved callback ran in the last step
CallbackRan == \E i \in 1..Len(toasts) : toasts[i] = "Processed students"

\* C19: an open session is closed only by onClose or by its own successful
\* save, which hands its final edited list to the callback; while a session
\* is open nothing else invokes the callback.
C19_ClosedByCancelOrOwnSave ==
    [][showFaceRecognition =>
          /\ ~showFaceRecognition' =>
                \/ lastOp'.op = "onClose"
                \/ /\ lastOp'.op = "saveAttendanceDone"
                   /\ lastOp'.failed = {}
                   /\ attendance' = attendanceRecords(editedResults, selectedDate)
          /\ CallbackRan' =>
                /\ lastOp'.op = "saveAttendanceDone"
                /\ ~showFaceRecognition']_vars

\* C20: the closure of a call in flight agrees with the current state of the
\* session: the recognizer call holds the selected image, the save call
\* holds the review list with every edit, and the callback of a successful
\* save gets the records of the current list.
C20_NoStaleState ==
    /\ [](recCall # NoCall =>
            /\ showFaceRecognition /\ currentStep = "processing"
            /\ recCall.photo = classPhoto)
    /\ [](saveCall # NoCall =>
            /\ showFaceRecognition /\ currentStep = "saving"
            /\ saveCall.attendance_results = editedResults
            /\ saveCall.date = selectedDate)
    /\ [][(lastOp'.op = "saveAttendanceDone" /\ ~showFaceRecognition') =>
            attendance' = attendanceRecords(editedResults, selectedDate)]_vars

\* a list that was edited after the recognition is being saved
C20_Witness ==
    /\ saveCall # NoCall
    /\ saveCall.st = "resp"
    /\ editedResults # attendanceResults
    /\ Len(editedResults) = 2

\* C21: the list of added images of the face-training upload never holds
\* more than 5 images, valid and invalid together.
C21_AtMostFiveImages ==
    Len(images) <= 5

\* a selection of several files was cut off at the fifth image
C21_Witness ==
    /\ lastOp.op = "FaceUpload.handleFileSelect"
    /\ lastOp.files >= 2
    /\ Len(images) = 5
    /\ toasts = <<"Too many files">>
    /\ \E k \in 1..5 : images[k].status = "invalid"

\* a file that passes the validation of the training upload
TrainFileAllowed(f) ==
    /\ f.type \in {"image/jpeg", "image/jpg", "image/png"}
    /\ f.size <= 10 * 1024 * 1024

\* C22: a training request carries at least 2 images, all of them valid;
\* handleUpload with at least 2 valid images sends exactly the valid ones, in
\* their order, and with fewer it sets an error and sends nothing.
C22_TrainingNeedsTwoValid ==
    /\ [](trainCall # NoCall =>
            /\ Len(trainCall.images) >= 2
            /\ \A k \in 1..Len(trainCall.images) : TrainFileAllowed(trainCall.images[k]))
    /\ [][lastOp'.op = "handleUpload" =>
            LET valid == SelectSeq(images, LAMBDA img : TrainFileAllowed(img.file)) IN
            IF Len(valid) >= 2
            THEN /\ trainCall' # NoCall
                 /\ trainCall'.images = [k \in 1..Len(valid) |-> valid[k].file]
            ELSE /\ trainCall' = NoCall
                 /\ uploadError' \notin {NoError, ""}
                 /\ ~uploading']_vars

\* a request was sent from a list that also holds an invalid image
C22_Witness ==
    /\ lastOp.op = "handleUpload"
    /\ trainCall # NoCall
    /\ Len(trainCall.images) = 2
    /\ Len(images) = 3

\* C23: an insert refused as a duplicate is retried once as an update of
\* the row with the same key; when that update fails too, the student's write
\* is reported as failed, and nothing more is written.
C23_RetryOnceThenFailed ==
    [][(/\ markPc = "check"
        /\ lastOp.op = "markAttendance"
        /\ lastOp.path = "retry"
        /\ ~lastOp.written
        /\ lastOp'.op = "markAttendance")
       => /\ lastOp'.path = "check"
          /\ markPc' = "idle"
          /\ store' = store
          /\ report'[markCall.student] = "failed"
          /\ toasts' = <<"Error">>]_vars

\* C25: when markAllPresent has run over the roster and every write to the
\* store succeeded, the attendance list holds a present record of the
\* selected date for each student of the roster.
C25_AllPresentAfterBatch ==
    (/\ lastOp.op = "markAttendance"
     /\ lastOp.inBatch
     /\ batch = NoBatch
     /\ markPc = "idle"
     /\ rejected = {}
     /\ \A s \in Range(students) : report[s] = "succeeded")
    => \A s \in Range(students) :
          \E k \in 1..Len(attendance) :
             /\ attendance[k].user_id = s
             /\ attendance[k].date = selectedDate
             /\ attendance[k].status = "present"

\* C26: the status shown for a student, and every status counted, is that of
\* a record of the selected date.
C26_StatusOfSelection ==
    /\ \A s \in Range(students) :
          getAttendanceStatus(s) # "" =>
             \E k \in 1..Len(attendance) :
                /\ attendance[k].user_id = s
                /\ attendance[k].date = selectedDate
                /\ attendance[k].status = getAttendanceStatus(s)
    /\ \A st \in Statuses :
          getAttendanceStats[st] =
             Cardinality({i \in 1..Len(attendance) :
                            /\ attendance[i].status = st
                            /\ attendance[i].date = selectedDate})

\* C24: a saved session replaces the attendance list of the page: the new
\* list has one record per reviewed decision, in the order of the review and
\* with its status, whatever the list held before.
C24_SavedSessionOverwrites ==
    [][(lastOp'.op = "saveAttendanceDone" /\ ~showFaceRecognition')
       => /\ Len(attendance') = Len(editedResults)
          /\ \A i \in 1..Len(editedResults) :
                /\ attendance'[i].user_id = editedResults[i].student_id
                /\ attendance'[i].status = editedResults[i].status
                /\ attendance'[i].date = selectedDate]_vars

\* a record made by a manual mark, hence committed, was in the list and its
\* status is no longer there after the save
C24_Witness ==
    /\ lastOp.op = "saveAttendanceDone"
    /\ ~showFaceRecognition
    /\ \E k \in 1..Len(lastOp.replaced) :
          /\ lastOp.replaced[k] \in store
          /\ \A i \in 1..Len(attendance) :
                attendance[i].user_id = lastOp.replaced[k].user_id
                => attendance[i].status # lastOp.replaced[k].status

C28_NoCallbackAfterClose ==
    [][lastOp'.op = "saveAttendanceDoneUnmounted"
       => (attendance' = attendance /\ ~CallbackRan')]_vars

\* C30: an open session is in the processing step only while its recognizer
\* call is in flight and in the saving step only while its save call is; the
\* completion of the recognizer call leaves it in review or upload, the
\* completion of the save call closed or in review.
C30_CompletionLeavesStep ==
    /\ []((showFaceRecognition /\ currentStep = "processing") => recCall # NoCall)
    /\ []((showFaceRecognition /\ currentStep = "saving") => saveCall # NoCall)
    /\ [][lastOp'.op = "processClassPhotoDone"
          => /\ showFaceRecognition'
             /\ currentStep' \in {"review", "upload"}
             /\ ~processing'
             /\ recCall' = NoCall]_vars
    /\ [][lastOp'.op = "saveAttendanceDone"
          => /\ saveCall' = NoCall
             /\ \/ ~showFaceRecognition'
                \/ currentStep' = "review" /\ ~saving']_vars

\* a failed save has put the open session back to review
C30_Witness ==
    /\ lastOp.op = "saveAttendanceDone"
    /\ showFaceRecognition
    /\ currentStep = "review"
    /\ error # NoError
    /\ editedResults # <<>>

====
